---- MODULE Spec2Model ----
(***************************************************************************)
(* Model of iota-client's address derivation (api/address.rs) and of the   *)
(* migration bundle pipeline (migration/bundle.rs): create, sign, mine and *)
(* update_essence_with_mined_essence.                                      *)
(*                                                                         *)
(* Four state machines share the module; each has its own specification    *)
(* and leaves the variables of the others untouched:                       *)
(*   SpecAddr    GetAddressesBuilder::get and generate_address             *)
(*   SpecBundle  create_migration_bundle and sign_migration_bundle         *)
(*   SpecUpdate  update_essence_with_mined_essence                         *)
(*   SpecMine    mine, its two spawned tasks and the caller                *)
(***************************************************************************)
EXTENDS Integers, Sequences, FiniteSets, TLC

VARIABLES
    \* ---- api/address.rs -------------------------------------------------
    a_args,       \* the builder: [seed, account_index, range]
    a_pc,         \* position inside get / generate_address
    a_path,       \* `path`, the scratch BIP32Path
    a_cur,        \* the loop variable i of `for i in range`
    a_internal,   \* which of the two calls of an iteration is next / running
    a_derived,    \* the address computed by the running generate_address call
    a_address,    \* `address`, the external address of the iteration
    a_addresses,  \* `addresses`
    a_result,     \* what get returned
    \* ---- migration/bundle.rs: create_migration_bundle, sign_migration_bundle
    b_inputs,     \* `inputs: Vec<InputData>`
    b_pc,         \* "idle" before the call, "done" after it
    b_op,         \* which of the two functions was called
    b_built,      \* what seal().sign().attach_local().build() produced
    b_result,     \* what the call returned, or that it panicked
    \* ---- migration/bundle.rs: update_essence_with_mined_essence ---------
    u_txs,        \* `prepared_txs`
    u_part,       \* `latest_tx_essence_part`
    u_pc,         \* "idle" before the call, "done" after it
    u_result,     \* what the call returned, or that it panicked
    \* ---- migration/bundle.rs: mine -------------------------------------
    m_args,       \* the arguments of mine and the number of cores
    m_pc,         \* "idle" before the call, "returned" after it
    m_result,     \* what mine returned, or that it panicked
    m_task,       \* the spawned task: "none", "recover", "send", "done"
    m_watch,      \* the task awaiting abortable_worker: "none", "await", "done"
    m_search,     \* the miner inside recover: "none", "running", "found", "timeout"
    m_event,      \* `event`, what recover returned
    m_chan,       \* the events buffered in the channel (tx, rx)
    m_sender,     \* whether `tx` has not been dropped yet
    m_rx,         \* the caller's receiver: "none", "open", "closed", "dropped"
    m_received,   \* the events rx.recv() has returned to the caller
    m_aborted,    \* whether abort_handle.abort() was called
    m_sent        \* how many events tx.send put into the channel

b_vars == <<b_inputs, b_pc, b_op, b_built, b_result>>

u_vars == <<u_txs, u_part, u_pc, u_result>>

m_vars == <<m_args, m_pc, m_result, m_task, m_watch, m_search, m_event, m_chan,
            m_sender, m_rx, m_received, m_aborted, m_sent>>

a_vars == <<a_args, a_pc, a_path, a_cur, a_internal, a_derived, a_address,
            a_addresses, a_result>>

None == [none |-> TRUE]

(***************************************************************************)
(* Machine integers.  A u32 or usize value v is held as [hi, lo] with      *)
(* v = hi * 2^31 + lo and 0 <= lo < 2^31, so that bit 31 (the hardened     *)
(* bit) is hi % 2 and no arithmetic leaves the 32-bit integers of TLC. *)
(***************************************************************************)
\* 2^31 - 1, the largest value below HARDEND = 1 << 31
LowMask == 2147483647

Word(hi, lo) == [hi |-> hi, lo |-> lo]

\* const HARDEND: u32 = 1 << 31
HARDEND == Word(1, 0)

\* `x as u32` of a usize: the low 32 bits
AsU32(x) == Word(x.hi % 2, x.lo)

\* x < y on usize
Less(x, y) == x.hi < y.hi \/ (x.hi = y.hi /\ x.lo < y.lo)

\* x + 1 on usize (the range iterator's step)
Succ(x) == IF x.lo = LowMask THEN Word(x.hi + 1, 0) ELSE Word(x.hi, x.lo + 1)

\* the u32 addition `x + HARDEND`: exact when bit 31 of x is clear.  When it
\* is set the sum overflows: a build with overflow checks panics, a build
\* without them wraps to x - 2^31.
AddHARDEND(x) ==
    IF x.hi = 0
    THEN {[panic |-> FALSE, val |-> Word(1, x.lo)]}
    ELSE {[panic |-> TRUE, val |-> x], [panic |-> FALSE, val |-> Word(0, x.lo)]}

IsHardened(c) == c.hi = 1

(***************************************************************************)
(* Bounds of the address machine                                           *)
(***************************************************************************)
\* longest explicit range that is enumerated
MaxRangeLen == 2
\* largest account index that is enumerated
MaxAccount == 1

\* `None => 0..20`
DefaultRangeEnd == 20

\* x + n on usize
RECURSIVE Advance(_, _)
Advance(x, n) == IF n = 0 THEN x ELSE Advance(Succ(x), n - 1)

\* first indices of the enumerated ranges: 0, 2^31 - 1, 2^31 and 2^32
RangeStarts == {Word(0, 0), Word(0, LowMask), Word(1, 0), Word(2, 0)}

Ranges ==
    {[start |-> s, end |-> Advance(s, n)] : s \in RangeStarts, n \in 0..MaxRangeLen}
    \cup {[start |-> Advance(s, 1), end |-> s] : s \in RangeStarts}

Seeds == {[scheme |-> "Ed25519", id |-> 1], [scheme |-> "Wots", id |-> 1]}

BuilderArgs ==
    [seed : Seeds,
     account_index : {None} \cup {Word(0, n) : n \in 0..MaxAccount},
     range : {None} \cup Ranges]

(***************************************************************************)
(* api/address.rs                                                          *)
(***************************************************************************)
\* account_path!(i) parsed by BIP32Path::from_str: m/44'/4218'/i'
BasePath(account) ==
    <<Word(1, 44), Word(1, 4218), Word(1, account.lo)>>

\* the range get iterates over
RangeOf(args) ==
    IF args.range = None
    THEN [start |-> Word(0, 0), end |-> Word(0, DefaultRangeEnd)]
    ELSE args.range

\* Ed25519PrivateKey::generate_from_seed: only hardened components derive
DeriveOk(path) == \A k \in 1..Len(path) : IsHardened(path[k])

\* the Blake2b-256 hash of the public key derived from seed and path,
\* wrapped as Address::Ed25519
Ed25519AddressOf(seed, path) ==
    [kind |-> "Ed25519", seed |-> seed.id, path |-> path]

PopOnce(path) == SubSeq(path, 1, Len(path) - 1)

\* path.pop(); path.pop(): the last two components are removed
PopPushed(path) == SubSeq(path, 1, Len(path) - 2)

PushPairSwapped(addresses, address, internal_address) ==
    addresses \o <<<<address, TRUE>>, <<internal_address, FALSE>>>>

\* addresses.push((address, false)); addresses.push((internal_address, true))
PushPair(addresses, address, internal_address) ==
    addresses \o <<<<address, FALSE>>, <<internal_address, TRUE>>>>

a_Idle ==
    /\ a_pc = "idle" /\ a_path = <<>> /\ a_cur = Word(0, 0)
    /\ a_internal = FALSE /\ a_derived = None /\ a_address = None
    /\ a_addresses = <<>> /\ a_result = None

InitAddr == a_args \in BuilderArgs /\ a_Idle

\* get, up to the loop: the account path, the range, the seed scheme
GetBegin ==
    /\ a_pc = "idle"
    /\ IF a_args.account_index = None
       THEN /\ a_pc' = "done"
            /\ a_result' = [ok |-> FALSE, err |-> "MissingParameter"]
            /\ UNCHANGED <<a_path, a_cur>>
       ELSE /\ a_path' = BasePath(a_args.account_index)
            /\ a_cur' = RangeOf(a_args).start
            /\ a_pc' = IF a_args.seed.scheme = "Ed25519" THEN "call" ELSE "panic"
            /\ UNCHANGED a_result
    /\ UNCHANGED <<a_args, a_internal, a_derived, a_address, a_addresses>>

\* the range is exhausted: Ok(addresses)
GetReturn ==
    /\ a_pc = "call" /\ ~a_internal
    /\ ~Less(a_cur, RangeOf(a_args).end)
    /\ a_pc' = "done"
    /\ a_result' = [ok |-> TRUE, addresses |-> a_addresses]
    /\ UNCHANGED <<a_args, a_path, a_cur, a_internal, a_derived, a_address,
                   a_addresses>>

\* generate_address, the two path.push calls
GenPush ==
    /\ a_pc = "call"
    /\ Less(a_cur, RangeOf(a_args).end)
    /\ LET flag == Word(0, IF a_internal THEN 1 ELSE 0)
           chain == CHOOSE r \in AddHARDEND(flag) : TRUE
       IN \E r \in AddHARDEND(AsU32(a_cur)) :
            IF r.panic
            THEN /\ a_path' = Append(a_path, chain.val)
                 /\ a_pc' = "panic"
            ELSE /\ a_path' = a_path \o <<chain.val, r.val>>
                 /\ a_pc' = "pushed"
    /\ UNCHANGED <<a_args, a_cur, a_internal, a_derived, a_address, a_addresses,
                   a_result>>

\* generate_address, key derivation and hashing
GenDerive ==
    /\ a_pc = "pushed"
    /\ IF DeriveOk(a_path)
       THEN /\ a_derived' = Ed25519AddressOf(a_args.seed, a_path)
            /\ a_pc' = "derived"
       ELSE /\ a_pc' = "panic"
            /\ UNCHANGED a_derived
    /\ UNCHANGED <<a_args, a_path, a_cur, a_internal, a_address, a_addresses,
                   a_result>>

\* generate_address, the two path.pop calls and the return into get's loop
GenPop ==
    /\ a_pc = "derived"
    /\ a_path' = PopPushed(a_path)
    /\ a_pc' = "call"
    /\ a_derived' = None
    /\ IF ~a_internal
       THEN /\ a_address' = a_derived
            /\ a_internal' = TRUE
            /\ UNCHANGED <<a_cur, a_addresses>>
       ELSE /\ a_addresses' = PushPair(a_addresses, a_address, a_derived)
            /\ a_address' = None
            /\ a_internal' = FALSE
            /\ a_cur' = Succ(a_cur)
    /\ UNCHANGED <<a_args, a_result>>

(***************************************************************************)
(* migration/bundle.rs: create_migration_bundle and sign_migration_bundle  *)
(***************************************************************************)
\* most inputs of a batch that are enumerated
MaxInputs == 3
\* most transactions of a bundle that are enumerated
MaxTxs == 3

\* legacy (ternary) addresses: two that inputs spend from, one foreign
Legacy(name) == [trytes |-> name]

InputAddresses == {Legacy("A"), Legacy("B")}

\* the Ed25519 address the funds migrate to
TargetAddress == [kind |-> "Ed25519", seed |-> 1, path |-> <<>>]

\* encode_migration_address: the legacy form of an Ed25519 address
encode_migration_address(address) == [trytes |-> "TRANSFER", of |-> address]

MigrationAddress == encode_migration_address(TargetAddress)

\* the key index an input address was generated at
IndexOf(address) == IF address = Legacy("A") THEN 0 ELSE 1

InputDatas ==
    {[address |-> a, balance |-> b, index |-> IndexOf(a), security_lvl |-> l] :
        a \in InputAddresses, b \in {1, 2}, l \in {1, 2, 4}}

SeqsUpTo(S, n) == UNION {[1..k -> S] : k \in 0..n}

\* the transactions of a built bundle, as far as sign_migration_bundle reads
\* them: the address and the position in the bundle
BuiltBundles ==
    {[k \in 1..Len(f) |-> [address |-> f[k], index |-> k - 1]] :
        f \in SeqsUpTo(InputAddresses \cup {MigrationAddress, Legacy("X")}, MaxTxs)
              \ {<<>>}}

BuildOutcomes == {[ok |-> FALSE]} \cup {[ok |-> TRUE, txs |-> b] : b \in BuiltBundles}

\* Vec::dedup: of each run of consecutive equal elements the first is kept
RECURSIVE Dedup(_)
Dedup(s) ==
    IF Len(s) <= 1 THEN s
    ELSE LET rest == Dedup(Tail(s))
         IN IF Head(s) = Head(rest) THEN rest ELSE <<Head(s)>> \o rest

\* iter().sum() of the balances
RECURSIVE SumBalances(_)
SumBalances(s) == IF s = <<>> THEN 0 ELSE Head(s).balance + SumBalances(Tail(s))

Reverse(s) == [k \in 1..Len(s) |-> s[Len(s) + 1 - k]]

Contains(s, x) == \E k \in 1..Len(s) : s[k] = x

SameLevelFirstLast(inputs) ==
    inputs[1].security_lvl = inputs[Len(inputs)].security_lvl

\* inputs.iter().all(|i| i.security_lvl == inputs[0].security_lvl)
SameSecurityLevel(inputs) ==
    \A k \in 1..Len(inputs) : inputs[k].security_lvl = inputs[1].security_lvl

\* InputData -> Input, then address_inputs.dedup()
AddressInputs(inputs) ==
    Dedup([k \in 1..Len(inputs) |->
             [address |-> inputs[k].address, balance |-> inputs[k].balance,
              index |-> inputs[k].index]])

MigrationError(msg) == [status |-> "err", msg |-> msg, sealed |-> FALSE]

Panic(msg, sealed) == [status |-> "panic", msg |-> msg, sealed |-> sealed]

\* PrepareTransfersBuilder::new(..).security(..).transfers(..).inputs(..)
\*     .build_unsigned(): the unsigned bundle, known by what it was built from
build_unsigned(security, transfers, inputs) ==
    [status |-> "ok", sealed |-> FALSE,
     bundle |-> [security |-> security, transfers |-> transfers,
                 inputs |-> inputs]]

create_migration_bundle(address, inputs) ==
    LET migration_address == encode_migration_address(address)
    IN IF inputs = <<>> THEN MigrationError("No inputs provided")
       ELSE IF ~SameSecurityLevel(inputs)
       THEN MigrationError("Not all inputs have the same security level")
       ELSE LET address_inputs == AddressInputs(inputs)
                total_value == SumBalances(address_inputs)
                transfer == <<[address |-> migration_address,
                               value |-> total_value,
                               message |-> None, tag |-> None]>>
            IN build_unsigned(inputs[1].security_lvl, transfer, address_inputs)

\* sign_migration_bundle before it touches the bundle: the result it ends
\* with there, or "pass"
SignValidate(inputs) ==
    IF inputs = <<>> THEN MigrationError("No inputs provided")
    ELSE IF inputs[1].security_lvl \notin {1, 2, 3}
    THEN Panic("Invalid scurity level", FALSE)
    ELSE IF ~SameSecurityLevel(inputs)
    THEN MigrationError("Not all inputs have the same security level")
    ELSE [status |-> "pass"]

\* built: what seal().sign().attach_local().build() yields, [ok, txs]; each
\* of the four is unwrapped with expect, so a failure of one is a panic
sign_migration_bundle(built, inputs) ==
    IF SignValidate(inputs).status # "pass" THEN SignValidate(inputs)
    ELSE IF ~built.ok THEN Panic("Fail to build bundle", TRUE)
    ELSE
      LET address_inputs == AddressInputs(inputs)
          input_addresses ==
              [k \in 1..Len(address_inputs) |-> address_inputs[k].address]
          trytes == built.txs
          bundle_addresses ==
              Dedup([k \in 1..Len(trytes) |-> trytes[k].address])
      IN IF Len(input_addresses) # Len(bundle_addresses) - 1
         THEN [status |-> "err", sealed |-> TRUE,
               msg |-> "Input address amount does't match created bundle"]
         ELSE IF \E k \in 1..Len(input_addresses) :
                    ~Contains(bundle_addresses, input_addresses[k])
         THEN [status |-> "err", sealed |-> TRUE,
               msg |-> "Not all input addresses in bundle"]
         ELSE [status |-> "ok", sealed |-> TRUE, txs |-> Reverse(trytes)]

b_Idle ==
    /\ b_pc = "idle" /\ b_op = "none" /\ b_built = None /\ b_result = None

InitBundle == b_inputs \in SeqsUpTo(InputDatas, MaxInputs) /\ b_Idle

CreateMigrationBundle ==
    /\ b_pc = "idle"
    /\ b_pc' = "done"
    /\ b_op' = "create"
    /\ b_result' = create_migration_bundle(TargetAddress, b_inputs)
    /\ UNCHANGED <<b_inputs, b_built>>

\* the prepared bundle is the caller's: what it builds to is drawn from
\* BuiltBundles when the function gets as far as building it
SignMigrationBundle ==
    /\ b_pc = "idle"
    /\ b_pc' = "done"
    /\ b_op' = "sign"
    /\ \E built \in IF SignValidate(b_inputs).status = "pass"
                    THEN BuildOutcomes ELSE {[ok |-> FALSE]} :
         LET r == sign_migration_bundle(built, b_inputs)
         IN /\ b_result' = r
            /\ b_built' = IF r.sealed THEN built ELSE None
    /\ UNCHANGED b_inputs

(***************************************************************************)
(* migration/bundle.rs: update_essence_with_mined_essence                  *)
(***************************************************************************)
\* TritBuf::<T1B1Buf>::zeros(8019): the raw length of a transaction
TxTrits == 8019
\* subslice_mut(6804..7047)
SpanFrom == 6804
SpanTo == 7047

\* the fields of a transaction in its raw form, [from, to) in trits
Layout ==
    << [field |-> "payload",         from |-> 0,    to |-> 6561],
       [field |-> "address",         from |-> 6561, to |-> 6804],
       [field |-> "value",           from |-> 6804, to |-> 6885],
       [field |-> "obsolete_tag",    from |-> 6885, to |-> 6966],
       [field |-> "timestamp",       from |-> 6966, to |-> 6993],
       [field |-> "index",           from |-> 6993, to |-> 7020],
       [field |-> "last_index",      from |-> 7020, to |-> 7047],
       [field |-> "bundle",          from |-> 7047, to |-> 7290],
       [field |-> "trunk",           from |-> 7290, to |-> 7533],
       [field |-> "branch",          from |-> 7533, to |-> 7776],
       [field |-> "tag",             from |-> 7776, to |-> 7857],
       [field |-> "attachment_ts",   from |-> 7857, to |-> 7884],
       [field |-> "attachment_lbts", from |-> 7884, to |-> 7911],
       [field |-> "attachment_ubts", from |-> 7911, to |-> 7938],
       [field |-> "nonce",           from |-> 7938, to |-> TxTrits] >>

Fields == {Layout[k].field : k \in 1..Len(Layout)}

\* fields held as numbers that must not be negative
UnsignedFields == {"timestamp", "index", "last_index", "attachment_ts"}

\* a trit buffer: the blocks it is made of, each [from, to) with its trits
Block(from, to, trits) == [from |-> from, to |-> to, trits |-> trits]

\* BundledTransaction::as_trits_allocated
AsTrits(tx) ==
    [k \in 1..Len(Layout) |->
        Block(Layout[k].from, Layout[k].to, [of |-> tx[Layout[k].field]])]

\* subslice_mut(from..to).copy_from(part): the blocks inside the span are
\* replaced by the blocks of part at the same distance from the span's start
CopyFrom(trits, from, to, part) ==
    [k \in 1..Len(trits) |->
        IF from <= trits[k].from /\ trits[k].to <= to
        THEN LET j == CHOOSE j \in 1..Len(part.blocks) :
                          part.blocks[j].from = trits[k].from - from
             IN Block(trits[k].from, trits[k].to, part.blocks[j].trits)
        ELSE trits[k]]

\* BundledTransaction::from_trits: an error when a field does not parse
FromTrits(trits) ==
    LET tx == [f \in Fields |->
                 LET k == CHOOSE k \in 1..Len(Layout) : Layout[k].field = f
                 IN trits[k].trits.of]
    IN IF \E f \in UnsignedFields : tx[f] < 0
       THEN [ok |-> FALSE]
       ELSE [ok |-> TRUE, tx |-> tx]

\* Payload::zeros(), Hash::zeros(), Nonce::zeros()
Zeros == [trits |-> "zeros"]

\* Timestamp::from_inner_unchecked(std::u64::MIN) and (std::u64::MAX)
U64Min == [u64 |-> "MIN"]

U64Max == [u64 |-> "MAX"]

\* one BundledTransactionBuilder of the rebuilt bundle
Rebuilt(tx) ==
    [payload |-> Zeros, address |-> tx.address, value |-> tx.value,
     obsolete_tag |-> tx.obsolete_tag, timestamp |-> tx.timestamp,
     index |-> tx.index, last_index |-> tx.last_index, tag |-> tx.tag,
     attachment_ts |-> tx.attachment_ts, bundle |-> Zeros, trunk |-> Zeros,
     branch |-> Zeros, attachment_lbts |-> U64Min, attachment_ubts |-> U64Max,
     nonce |-> Zeros]

FirstTx(txs) == 1

\* prepared_txs.len() - 1, as a position counted from 1
LastTx(txs) == Len(txs)

update_essence_with_mined_essence(prepared_txs, latest_tx_essence_part) ==
    IF prepared_txs = <<>> THEN Panic("index out of bounds", FALSE)
    ELSE IF latest_tx_essence_part.len # SpanTo - SpanFrom
    THEN Panic("copy_from: length mismatch", FALSE)
    ELSE
      LET last == LastTx(prepared_txs)
          trits == CopyFrom(AsTrits(prepared_txs[last]), SpanFrom, SpanTo,
                            latest_tx_essence_part)
          parsed == FromTrits(trits)
      IN IF ~parsed.ok THEN [status |-> "err", msg |-> "from_trits"]
         ELSE LET txs == [prepared_txs EXCEPT ![last] = parsed.tx]
              IN [status |-> "ok",
                  bundle |-> [k \in 1..Len(txs) |-> Rebuilt(txs[k])]]

\* a transaction as mine or sign_migration_bundle hands it on: attached
\* transactions carry a signature, the bundle hash, trunk, branch and nonce
PreparedTx(address, value, attached, index, last_index) ==
    LET set(name) == IF attached THEN [trits |-> name] ELSE Zeros
    IN [payload |-> set("signature"), address |-> address, value |-> value,
        obsolete_tag |-> [trits |-> "OBSOLETE"], timestamp |-> 1,
        index |-> index, last_index |-> last_index,
        bundle |-> set("bundle hash"), trunk |-> set("trunk"),
        branch |-> set("branch"), tag |-> [trits |-> "TAG"],
        attachment_ts |-> IF attached THEN 2 ELSE 0,
        attachment_lbts |-> IF attached THEN [u64 |-> "lower"] ELSE U64Min,
        attachment_ubts |-> IF attached THEN [u64 |-> "upper"] ELSE U64Max,
        nonce |-> set("nonce")]

TxShapes == [address : {Legacy("A"), MigrationAddress}, value : {-5, 5},
             attached : BOOLEAN]

PreparedBundles ==
    {[k \in 1..Len(f) |->
        PreparedTx(f[k].address, f[k].value, f[k].attached, k - 1, Len(f) - 1)] :
        f \in SeqsUpTo(TxShapes, MaxTxs)}

\* the second essence part of a transaction: value, obsoleteTag,
\* currentIndex, lastIndex and timestamp, 243 trits
EssencePart(value, obsolete_tag, timestamp, index, last_index) ==
    [len |-> 243,
     blocks |-> << Block(0, 81, [of |-> value]),
                   Block(81, 162, [of |-> obsolete_tag]),
                   Block(162, 189, [of |-> timestamp]),
                   Block(189, 216, [of |-> index]),
                   Block(216, 243, [of |-> last_index]) >>]

\* mined parts: well-formed ones, one whose timestamp does not parse, and
\* an obsolete tag alone (81 trits)
MinedParts ==
    {EssencePart(5, [trits |-> "MINED"], ts, i, i) :
        ts \in {1, -1}, i \in {0, MaxTxs - 1}}
    \cup {[len |-> 81, blocks |-> <<Block(0, 81, [of |-> [trits |-> "MINED"]])>>]}

InitUpdate ==
    /\ u_txs \in PreparedBundles
    /\ u_part \in MinedParts
    /\ u_pc = "idle"
    /\ u_result = None

UpdateEssence ==
    /\ u_pc = "idle"
    /\ u_pc' = "done"
    /\ u_result' = update_essence_with_mined_essence(u_txs, u_part)
    /\ UNCHANGED <<u_txs, u_part>>

(***************************************************************************)
(* migration/bundle.rs: mine                                               *)
(***************************************************************************)
\* most known bundle hashes that are enumerated
MaxHashes == 2
\* most cores num_cpus::get() reports
MaxCpus == 2

\* tokio::sync::mpsc::channel(2)
EventChannelCapacity == 2

\* a String is the sequence of its characters
TryteAlphabet ==
    {"9", "A", "B", "C", "D", "E", "F", "G", "H", "I", "J", "K", "L", "M",
     "N", "O", "P", "Q", "R", "S", "T", "U", "V", "W", "X", "Y", "Z"}

\* spent bundle hashes as callers pass them: two of trytes, one in lower
\* case, one with a digit that is no tryte after a tryte
HashStrings == {<<"9", "N">>, <<"Z">>, <<"n">>, <<"A", "1">>}

MineArgs ==
    [spent_bundle_hashes : SeqsUpTo(HashStrings, MaxHashes),
     buildable : BOOLEAN,
     security_level : {1, 3},
     ledger : BOOLEAN,
     cpus : 1..MaxCpus]

FirstCharIsTryte(str) == str # <<>> /\ str[1] \in TryteAlphabet

\* whether TryteBuf::try_from_str(str) is Ok
IsTrytes(str) == \A k \in 1..Len(str) : str[k] \in TryteAlphabet

\* TryteBuf::try_from_str(str)?.as_trits().encode()
TritsOf(str) == [t1b1 |-> str]

\* the bundle mine seals, signs with a random seed and builds
DecoyTxs ==
    << PreparedTx(MigrationAddress, 5, TRUE, 0, 1),
       PreparedTx(Legacy("A"), -5, TRUE, 1, 1) >>

\* the trytes of a piece of the essence, T3B1-encoded
TrytesOfAddress(address) == IF address = MigrationAddress THEN <<"T", "9">> ELSE <<"A">>

TrytesOfValue(value) == IF value < 0 THEN <<"Z", "9">> ELSE <<"E", "9">>

RECURSIVE get_bundle_essence_parts(_)
get_bundle_essence_parts(txs) ==
    IF txs = <<>> THEN <<>>
    ELSE <<TrytesOfAddress(Head(txs).address), TrytesOfValue(Head(txs).value)>>
         \o get_bundle_essence_parts(Tail(txs))

\* .map(|t| Ok(TryteBuf::try_from_str(..)?..)).collect::<Result<Vec<_>>>()
AllTrytes(strs) == \A k \in 1..Len(strs) : IsTrytes(strs[k])

ConvertAll(strs) == [k \in 1..Len(strs) |-> TritsOf(strs[k])]

\* one worker less than there are cores, or 1 if there is only one core
WorkerCount(cpus) == IF cpus > 1 THEN cpus - 1 ELSE 1

\* mine up to its return: what it returns and whether it spawned its tasks
mine(args) ==
    IF args.spent_bundle_hashes = <<>>
    THEN [status |-> "err", msg |-> "Can't mine without spent_bundle_hashes",
          spawned |-> FALSE]
    ELSE IF ~args.buildable
    THEN [status |-> "panic", msg |-> "Fail to build bundle", spawned |-> FALSE]
    ELSE
      LET txs == DecoyTxs
          essence_parts == get_bundle_essence_parts(txs)
      IN IF ~AllTrytes(essence_parts) \/ ~AllTrytes(args.spent_bundle_hashes)
         THEN [status |-> "err", msg |-> "tryte conversion", spawned |-> FALSE]
         ELSE [status |-> "ok", spawned |-> TRUE, txs |-> txs,
               miner |->
                 [essences |-> ConvertAll(essence_parts),
                  security_level |-> args.security_level,
                  num_13_free_fragments |->
                      IF args.ledger THEN 81 ELSE args.security_level * 27,
                  known_bundle_hashes |-> ConvertAll(args.spent_bundle_hashes),
                  worker_count |-> WorkerCount(args.cpus),
                  miner_channel |-> WorkerCount(args.cpus) + 2]]

InitMine ==
    /\ m_args \in MineArgs
    /\ m_pc = "idle" /\ m_result = None
    /\ m_task = "none" /\ m_watch = "none" /\ m_search = "none"
    /\ m_event = None /\ m_chan = <<>> /\ m_sender = FALSE /\ m_rx = "none"
    /\ m_received = <<>> /\ m_aborted = FALSE /\ m_sent = 0

\* the call of mine: on success both channels exist and both tasks run
Mine ==
    /\ m_pc = "idle"
    /\ m_pc' = "returned"
    /\ LET r == mine(m_args)
       IN /\ m_result' = r
          /\ IF r.spawned
             THEN /\ m_task' = "recover" /\ m_watch' = "await"
                  /\ m_search' = "running" /\ m_sender' = TRUE /\ m_rx' = "open"
             ELSE UNCHANGED <<m_task, m_watch, m_search, m_sender, m_rx>>
    /\ UNCHANGED <<m_args, m_event, m_chan, m_received, m_aborted, m_sent>>

\* inside recover: a worker finds a candidate
MinerFinds ==
    /\ m_search = "running"
    /\ m_search' = "found"
    /\ UNCHANGED <<m_args, m_pc, m_result, m_task, m_watch, m_event, m_chan,
                   m_sender, m_rx, m_received, m_aborted, m_sent>>

\* inside recover: the mining timeout elapses with no candidate
MinerTimeout ==
    /\ m_search = "running"
    /\ m_search' = "timeout"
    /\ UNCHANGED <<m_args, m_pc, m_result, m_task, m_watch, m_event, m_chan,
                   m_sender, m_rx, m_received, m_aborted, m_sent>>

\* let event = recoverer.recover(miner_tx_cloned, miner_rx).await
RecoverReturns ==
    /\ m_task = "recover"
    /\ m_search \in {"found", "timeout"}
    /\ m_event' = [kind |-> IF m_search = "found"
                            THEN "MinedCrackability" ELSE "Timeout"]
    /\ m_task' = "send"
    /\ UNCHANGED <<m_args, m_pc, m_result, m_watch, m_search, m_chan, m_sender,
                   m_rx, m_received, m_aborted, m_sent>>

\* a task that goes on sending after its first event
TaskSendsAgain ==
    /\ m_task = "send"
    /\ m_rx = "open" /\ Len(m_chan) < EventChannelCapacity
    /\ m_chan' = Append(m_chan, m_event)
    /\ m_sent' = m_sent + 1
    /\ UNCHANGED <<m_args, m_pc, m_result, m_task, m_watch, m_search, m_event,
                   m_sender, m_rx, m_received, m_aborted>>

\* a task whose sender outlives it
TaskSendKeepsSender ==
    /\ m_task = "send"
    /\ m_rx # "open" \/ Len(m_chan) < EventChannelCapacity
    /\ m_task' = "done"
    /\ IF m_rx = "open"
       THEN m_chan' = Append(m_chan, m_event) /\ m_sent' = m_sent + 1
       ELSE UNCHANGED <<m_chan, m_sent>>
    /\ UNCHANGED <<m_args, m_pc, m_result, m_watch, m_search, m_event, m_sender,
                   m_rx, m_received, m_aborted>>

\* let _ = tx.send(event).await, and the end of the task, which drops tx.
\* send waits while the channel is full and fails once the receiver is
\* closed or dropped; the failure is discarded
TaskSend ==
    /\ m_task = "send"
    /\ m_rx # "open" \/ Len(m_chan) < EventChannelCapacity
    /\ m_task' = "done"
    /\ m_sender' = FALSE
    /\ IF m_rx = "open"
       THEN m_chan' = Append(m_chan, m_event) /\ m_sent' = m_sent + 1
       ELSE UNCHANGED <<m_chan, m_sent>>
    /\ UNCHANGED <<m_args, m_pc, m_result, m_watch, m_search, m_event, m_rx,
                   m_received, m_aborted>>

\* let _ = abortable_worker.await: the Abortable around the JoinHandle ends
\* when the handle is aborted or the task is done; the JoinHandle is dropped
WatcherFinish ==
    /\ m_watch = "await"
    /\ m_aborted \/ m_task = "done"
    /\ m_watch' = "done"
    /\ UNCHANGED <<m_args, m_pc, m_result, m_task, m_search, m_event, m_chan,
                   m_sender, m_rx, m_received, m_aborted, m_sent>>

\* the caller: abort_handle.abort()
Abort ==
    /\ m_pc = "returned" /\ m_result.status = "ok"
    /\ ~m_aborted
    /\ m_aborted' = TRUE
    /\ UNCHANGED <<m_args, m_pc, m_result, m_task, m_watch, m_search, m_event,
                   m_chan, m_sender, m_rx, m_received, m_sent>>

\* the caller: rx.recv().await returning Some(event)
Recv ==
    /\ m_rx \in {"open", "closed"}
    /\ m_chan # <<>>
    /\ m_received' = Append(m_received, Head(m_chan))
    /\ m_chan' = Tail(m_chan)
    /\ UNCHANGED <<m_args, m_pc, m_result, m_task, m_watch, m_search, m_event,
                   m_sender, m_rx, m_aborted, m_sent>>

\* the caller: rx.close()
CloseRx ==
    /\ m_rx = "open"
    /\ m_rx' = "closed"
    /\ UNCHANGED <<m_args, m_pc, m_result, m_task, m_watch, m_search, m_event,
                   m_chan, m_sender, m_received, m_aborted, m_sent>>

\* the caller: rx goes out of scope, what it buffered is dropped with it
DropRx ==
    /\ m_rx \in {"open", "closed"}
    /\ m_rx' = "dropped"
    /\ m_chan' = <<>>
    /\ UNCHANGED <<m_args, m_pc, m_result, m_task, m_watch, m_search, m_event,
                   m_sender, m_received, m_aborted, m_sent>>

(***************************************************************************)
(* Specifications.  Each runs one machine; the others stay as constructed. *)
(***************************************************************************)
vars ==
    <<a_args, a_pc, a_path, a_cur, a_internal, a_derived, a_address,
      a_addresses, a_result,
      b_inputs, b_pc, b_op, b_built, b_result,
      u_txs, u_part, u_pc, u_result,
      m_args, m_pc, m_result, m_task, m_watch, m_search, m_event, m_chan,
      m_sender, m_rx, m_received, m_aborted, m_sent>>

AddrOff == a_args = None /\ a_Idle

BundleOff == b_inputs = <<>> /\ b_Idle

UpdateOff == u_txs = <<>> /\ u_part = None /\ u_pc = "off" /\ u_result = None

MineOff ==
    /\ m_args = None /\ m_pc = "off" /\ m_result = None
    /\ m_task = "none" /\ m_watch = "none" /\ m_search = "none"
    /\ m_event = None /\ m_chan = <<>> /\ m_sender = FALSE /\ m_rx = "none"
    /\ m_received = <<>> /\ m_aborted = FALSE /\ m_sent = 0

\* api/address.rs
NextAddr ==
    \/ GetBegin /\ UNCHANGED <<b_vars, u_vars, m_vars>>
    \/ GetReturn /\ UNCHANGED <<b_vars, u_vars, m_vars>>
    \/ GenPush /\ UNCHANGED <<b_vars, u_vars, m_vars>>
    \/ GenDerive /\ UNCHANGED <<b_vars, u_vars, m_vars>>
    \/ GenPop /\ UNCHANGED <<b_vars, u_vars, m_vars>>

InitOfAddr == InitAddr /\ BundleOff /\ UpdateOff /\ MineOff

SpecAddr == InitOfAddr /\ [][NextAddr]_vars

\* create_migration_bundle and sign_migration_bundle
NextBundle ==
    \/ CreateMigrationBundle /\ UNCHANGED <<a_vars, u_vars, m_vars>>
    \/ SignMigrationBundle /\ UNCHANGED <<a_vars, u_vars, m_vars>>

InitOfBundle == InitBundle /\ AddrOff /\ UpdateOff /\ MineOff

SpecBundle == InitOfBundle /\ [][NextBundle]_vars

\* update_essence_with_mined_essence
NextUpdate == UpdateEssence /\ UNCHANGED <<a_vars, b_vars, m_vars>>

InitOfUpdate == InitUpdate /\ AddrOff /\ BundleOff /\ MineOff

SpecUpdate == InitOfUpdate /\ [][NextUpdate]_vars

\* a step of the mine machine
MineStep(A) == A /\ UNCHANGED <<a_vars, b_vars, u_vars>>

\* mine, its tasks and its caller
NextMine ==
    \/ MineStep(Mine)
    \/ MineStep(MinerFinds)
    \/ MineStep(MinerTimeout)
    \/ MineStep(RecoverReturns)
    \/ MineStep(TaskSend)
    \/ MineStep(WatcherFinish)
    \/ MineStep(Abort)
    \/ MineStep(Recv)
    \/ MineStep(CloseRx)
    \/ MineStep(DropRx)

InitOfMine == InitMine /\ AddrOff /\ BundleOff /\ UpdateOff

SpecMine == InitOfMine /\ [][NextMine]_vars

\* the runtime runs every task that can run, and the miner's search ends:
\* a candidate is found or the mining timeout elapses
FairSpecMine ==
    /\ SpecMine
    /\ WF_vars(MineStep(MinerFinds \/ MinerTimeout))
    /\ WF_vars(MineStep(RecoverReturns))
    /\ WF_vars(MineStep(TaskSend))
    /\ WF_vars(MineStep(WatcherFinish))

(***************************************************************************)
(* Properties: api/address.rs                                              *)
(***************************************************************************)
\* the address of key index i on the external or the internal chain
AddressAt(args, i, internal) ==
    Ed25519AddressOf(args.seed,
        BasePath(args.account_index)
            \o <<Word(1, IF internal THEN 1 ELSE 0), Word(1, i.lo)>>)

RECURSIVE ExpectedPairs(_, _, _)
ExpectedPairs(args, cur, end) ==
    IF ~Less(cur, end) THEN <<>>
    ELSE << <<AddressAt(args, cur, FALSE), FALSE>>,
            <<AddressAt(args, cur, TRUE), TRUE>> >>
         \o ExpectedPairs(args, Succ(cur), end)

\* end - start of a range, 0 when it is empty
RangeLength(r) ==
    IF ~Less(r.start, r.end) THEN 0
    ELSE IF r.start.hi = r.end.hi THEN r.end.lo - r.start.lo
    ELSE (LowMask - r.start.lo) + 1 + r.end.lo

GetReturnsAllPairs ==
    /\ a_pc # "panic"
    /\ a_pc = "done" =>
         /\ a_result.ok
         /\ Len(a_result.addresses) = 2 * RangeLength(RangeOf(a_args))
         /\ a_result.addresses =
              ExpectedPairs(a_args, RangeOf(a_args).start, RangeOf(a_args).end)

\* every index of the range is below 2^31
BelowHardened(r) == ~Less(r.start, r.end) \/ ~Less(Word(1, 0), r.end)

\* C7 as stated: for every account index and every index range, get returns
\* exactly 2 * range_length pairs in ascending index order, the external
\* address of an index right before its internal address.
C7_EveryRangeReturnsPairs ==
    (a_args.account_index # None /\ a_args.seed.scheme = "Ed25519")
        => GetReturnsAllPairs

\* C7 amended: the same, for an Ed25519 seed and a range whose indices are
\* all below 2^31 (an index from 2^31 on overflows `index as u32 + HARDEND`
\* and get panics).
C7_HardenableRangeReturnsPairs ==
    (/\ a_args.account_index # None
     /\ a_args.seed.scheme = "Ed25519"
     /\ BelowHardened(RangeOf(a_args)))
        => GetReturnsAllPairs

\* get has returned the pair of index 2^31 - 1, the last one below 2^31
C7_Witness ==
    /\ a_pc = "done"
    /\ a_args.range # None
    /\ a_result.ok
    /\ RangeOf(a_args).end = Word(1, 0)
    /\ Len(a_result.addresses) = 2

SetOf(s) == {s[k] : k \in 1..Len(s)}

RECURSIVE SumOfSet(_)
SumOfSet(S) ==
    IF S = {} THEN 0
    ELSE LET x == CHOOSE x \in S : TRUE IN x.balance + SumOfSet(S \ {x})

Mixed(inputs) ==
    \E j, k \in 1..Len(inputs) : inputs[j].security_lvl # inputs[k].security_lvl

\* C2: whenever sign_migration_bundle returns success, the addresses of the
\* built transactions are exactly the input addresses and the migration
\* address.  Stated for the bundles that hold a transaction to the migration
\* address, as every bundle prepared by create_migration_bundle does.
C2_SignedAddressesAreInputsAndTarget ==
    (/\ b_pc = "done" /\ b_op = "sign" /\ b_result.status = "ok"
     /\ \E tx \in SetOf(b_result.txs) : tx.address = MigrationAddress) =>
        {tx.address : tx \in SetOf(b_result.txs)}
            = {i.address : i \in SetOf(b_inputs)} \cup {MigrationAddress}

\* C3: for a non-empty batch of one security level, create_migration_bundle
\* hands transfer preparation the inputs with every duplicate removed and
\* one transfer of the sum of the distinct inputs' balances.
C3_CreateDeduplicatesAndConserves ==
    (/\ b_pc = "done" /\ b_op = "create"
     /\ b_inputs # <<>> /\ SameSecurityLevel(b_inputs)) =>
        LET distinct ==
                {[address |-> i.address, balance |-> i.balance, index |-> i.index] :
                    i \in SetOf(b_inputs)}
        IN /\ b_result.status = "ok"
           /\ SetOf(b_result.bundle.inputs) = distinct
           /\ Len(b_result.bundle.inputs) = Cardinality(distinct)
           /\ Len(b_result.bundle.transfers) = 1
           /\ b_result.bundle.transfers[1].value = SumOfSet(distinct)

IsMismatchError(r) ==
    /\ r.status = "err"
    /\ r.msg = "Not all inputs have the same security level"
    /\ ~r.sealed

\* C4 as stated: for every batch of mixed security levels, whatever the
\* levels are, both functions return the security-level-mismatch error.
C4_MixedLevelsAlwaysError ==
    (b_pc = "done" /\ Mixed(b_inputs)) => IsMismatchError(b_result)

\* C4 amended: for every batch of mixed security levels,
\* create_migration_bundle returns the mismatch error, and so does
\* sign_migration_bundle when the first input's level is 1, 2 or 3; when it
\* is not, sign_migration_bundle panics on it.  Nothing is sealed or signed.
C4_MixedLevelsErrorOrPanic ==
    (b_pc = "done" /\ Mixed(b_inputs)) =>
        IF b_op = "sign" /\ b_inputs[1].security_lvl \notin {1, 2, 3}
        THEN /\ b_result.status = "panic"
             /\ b_result.msg = "Invalid scurity level"
             /\ ~b_result.sealed
        ELSE IsMismatchError(b_result)

\* sign_migration_bundle has rejected a batch of three whose first and last
\* inputs agree and whose middle one does not
C4_Witness ==
    /\ b_pc = "done" /\ b_op = "sign"
    /\ Len(b_inputs) = 3
    /\ b_inputs[1].security_lvl = 1 /\ b_inputs[2].security_lvl = 2
    /\ b_inputs[3].security_lvl = 1
    /\ IsMismatchError(b_result)

(***************************************************************************)
(* Properties: update_essence_with_mined_essence                           *)
(***************************************************************************)
\* the fields raw offsets 6804..7047 hold
SpanFields == {"value", "obsolete_tag", "timestamp", "index", "last_index"}

\* the fields the rebuilt bundle sets to placeholders
PlaceholderFields ==
    {"payload", "bundle", "trunk", "branch", "nonce", "attachment_lbts",
     "attachment_ubts"}

\* what the mined part holds for a field of the span
MinedField(part, f) ==
    LET k == CHOOSE k \in 1..Len(Layout) : Layout[k].field = f
        j == CHOOSE j \in 1..Len(part.blocks) :
                 part.blocks[j].from = Layout[k].from - 6804
    IN part.blocks[j].trits.of

\* C5 as stated: only the span of the last transaction changes; every other
\* transaction and every field of the last one outside the span is the same
\* in the rebuilt bundle as in the transactions passed in, in number and
\* order.
C5_OnlySpanChanges ==
    (u_pc = "done" /\ u_result.status = "ok") =>
        /\ Len(u_result.bundle) = Len(u_txs)
        /\ \A k \in 1..Len(u_txs) : \A f \in Fields :
             \/ k = Len(u_txs) /\ f \in SpanFields
             \/ u_result.bundle[k][f] = u_txs[k][f]

\* C5 amended: the rebuilt bundle has the transactions in number and order;
\* the span of the last one holds the mined part; address, value, obsolete
\* tag, timestamp, index, last index, tag and attachment timestamp are
\* otherwise the same as passed in; payload, bundle hash, trunk, branch and
\* nonce are zeros and the attachment timestamp bounds are u64::MIN and
\* u64::MAX in every transaction.
C5_SpanChangesRestRebuilt ==
    (u_pc = "done" /\ u_result.status = "ok") =>
        /\ Len(u_result.bundle) = Len(u_txs)
        /\ \A k \in 1..Len(u_txs) :
             /\ \A f \in Fields \ PlaceholderFields :
                  u_result.bundle[k][f] =
                      IF k = Len(u_txs) /\ f \in SpanFields
                      THEN MinedField(u_part, f)
                      ELSE u_txs[k][f]
             /\ \A f \in {"payload", "bundle", "trunk", "branch", "nonce"} :
                  u_result.bundle[k][f] = Zeros
             /\ u_result.bundle[k].attachment_lbts = U64Min
             /\ u_result.bundle[k].attachment_ubts = U64Max

\* a bundle of three attached transactions has been rebuilt around a mined
\* part that differs from the last transaction's span
C5_Witness ==
    /\ u_pc = "done" /\ u_result.status = "ok"
    /\ Len(u_txs) = 3
    /\ \A k \in 1..3 : u_txs[k].payload # Zeros
    /\ u_result.bundle[3].obsolete_tag # u_txs[3].obsolete_tag
    /\ u_result.bundle[3].value # u_txs[3].value

(***************************************************************************)
(* Properties: mine                                                        *)
(***************************************************************************)
\* C1: once the caller has invoked the abort handle, the task sends no
\* event into the event channel.
C1_NoEventAfterAbort == [][m_aborted => m_sent' = m_sent]_vars

NothingSpawned ==
    /\ m_task = "none" /\ m_watch = "none" /\ m_search = "none"
    /\ ~m_sender /\ m_rx = "none" /\ m_chan = <<>> /\ m_sent = 0
    /\ "txs" \notin DOMAIN m_result

\* C6: when the known bundle hashes are empty, or one of them or an essence
\* part is not trytes, mine returns an error with no task spawned, no
\* channel, no abort handle and no transactions.  (A bundle that fails to
\* seal, sign or build panics before the conversions are reached.)
C6_InvalidArgsSpawnNothing ==
    m_pc = "returned" =>
        /\ m_args.spent_bundle_hashes = <<>> =>
             m_result.status = "err" /\ NothingSpawned
        /\ (/\ m_args.buildable
            /\ \E k \in 1..Len(m_args.spent_bundle_hashes) :
                 \E c \in 1..Len(m_args.spent_bundle_hashes[k]) :
                   m_args.spent_bundle_hashes[k][c] \notin TryteAlphabet) =>
             m_result.status = "err" /\ NothingSpawned
        /\ m_result.status # "ok" => NothingSpawned

\* mine has rejected two hashes of which only the second one's second
\* character is no tryte
C6_Witness ==
    /\ m_pc = "returned"
    /\ m_args.spent_bundle_hashes = << <<"Z">>, <<"A", "1">> >>
    /\ m_result.status = "err" /\ m_result.msg = "tryte conversion"
    /\ NothingSpawned

Events == SetOf(m_chan) \cup SetOf(m_received)

\* C8: when the mining timeout elapses with no candidate found and the job
\* is not cancelled, no MinedCrackability event is ever delivered, mine has
\* returned Ok, and the task ends and drops its sender, which closes the
\* event channel.
C8_TimeoutClosesChannel ==
    /\ [](m_search = "timeout" =>
            /\ \A e \in Events : e.kind # "MinedCrackability"
            /\ m_result.status = "ok")
    /\ (m_search = "timeout" /\ ~m_aborted) ~> (m_task = "done" /\ ~m_sender)

\* the timeout elapsed, the caller was handed the Timeout event and the
\* channel is closed
C8_Witness ==
    /\ m_search = "timeout" /\ ~m_aborted
    /\ m_task = "done" /\ ~m_sender
    /\ m_chan = <<>>
    /\ m_received = <<[kind |-> "Timeout"]>>

\* C9: the task sends at most one event, the channel of capacity 2 never
\* holds more than that one, so the send never has to wait; with the
\* receiver closed or dropped the send fails and the task still ends.
C9_SendNeverBlocks ==
    /\ m_sent <= 1
    /\ Len(m_chan) <= 1
    /\ Len(m_chan) + Len(m_received) <= m_sent
    /\ m_task = "send" => ENABLED TaskSend
    /\ (m_task = "done" /\ m_sent = 0) => m_rx \in {"closed", "dropped"}

\* the task has ended after a send that failed on a dropped receiver, with
\* the abort handle used as well
C9_Witness ==
    /\ m_task = "done" /\ m_sent = 0
    /\ m_rx = "dropped" /\ m_aborted

====
